---- MODULE Spec2Model ----
(***************************************************************************)
(* A model of the sigil CLI: the quarantine ledger (cli/src/quarantine.rs), *)
(* the clone/pip/npm commands that drive it (cli/src/main.rs) and the       *)
(* scoring engine (cli/src/scanner/scoring.rs).                             *)
(***************************************************************************)
EXTENDS Integers, Sequences, FiniteSets, TLC

\* ------------------------------------------------------------------ bounds

\* Number of clock readings (Utc::now) a behaviour may take.
MaxClock == 3
\* Longest list of findings handed to the scoring engine.
MaxFindings == 2

\* ------------------------------------------------------------- data model

\* QuarantineStatus (quarantine.rs 9-13)
QuarantineStatus == {"Pending", "Approved", "Rejected"}

\* The values short_id() can return: the first 8 characters of a random UUID.
\* Nothing in add() compares the value with the ids already in the ledger.
Ids == {"a", "b"}

\* source_type tags passed by cmd_clone, cmd_pip and cmd_npm.
SourceTypes == {"git", "pip", "npm"}

\* Option<&str> reasons a caller may pass; "None" stands for Option::None.
None == "None"
Reasons == {None, "r"}
AutoReason == "auto-approved: low risk scan"

\* Phase, Severity, Verdict (scanner/mod.rs)
Phase == {"InstallHooks", "CodePatterns", "NetworkExfil", "Credentials",
          "Obfuscation", "Provenance"}
Severity == {"Low", "Medium", "High", "Critical"}
Verdict == {"Clean", "LowRisk", "MediumRisk", "HighRisk", "Critical"}

VARIABLES
    index_file,   \* ~/.sigil/quarantine/index.json: [state, entries]
    dirs,         \* staging directories ~/.sigil/quarantine/<id>: absent/empty/filled
    clock,        \* number of Utc::now() readings so far
    last,         \* the last command run and what it returned
    finalized,    \* ids on which an approve or reject call has succeeded
    findings,     \* scoring engine input: the list of findings
    score,        \* scoring engine: the score handed to determine_verdict
    stage,        \* scoring engine: "input" (score given by the caller) or
                  \* "scored" (score computed by calculate_score)
    verdict,      \* scoring engine: determine_verdict's result, "none" before
    proc,         \* concurrent processes: each one's request, position, the
                  \* index it loaded and its Result
    base,         \* concurrent processes: the file system they started on
    tree,         \* the scanned directory: path -> [size, mtime, content]
    cache,        \* ~/.sigil/cache: file name -> [data, mtime]
    cclock,       \* the time on the cache directory's file system
    out,          \* the last scan command or change of the directory
    previous,     \* diff engine: the baseline ScanResult
    current,      \* diff engine: the current ScanResult
    diff,         \* diff engine: diff_scans' result, "none" before
    cloud,        \* ~/.sigil/signatures.json and signatures_meta.json
    sync          \* the last get_signatures call and what it returned

qvars == <<index_file, dirs, clock, last, finalized>>
svars == <<findings, score, stage, verdict>>
cvars == <<proc, base>>
kvars == <<tree, cache, cclock, out>>
dvars == <<previous, current, diff>>
gvars == <<cloud, sync>>
vars == <<index_file, dirs, clock, last, finalized, findings, score, stage, verdict,
          proc, base, tree, cache, cclock, out, previous, current, diff, cloud, sync>>

\* ---------------------------------------------------------------- scoring

\* phase_weight (scoring.rs 11-22)
phase_weight(phase) ==
    CASE phase = "InstallHooks" -> 10
      [] phase = "CodePatterns" -> 5
      [] phase = "NetworkExfil" -> 3
      [] phase = "Credentials" -> 2
      [] phase = "Obfuscation" -> 5
      [] phase = "Provenance" -> 1

\* severity_score (scoring.rs 25-32)
severity_score(severity) ==
    CASE severity = "Low" -> 1
      [] severity = "Medium" -> 2
      [] severity = "High" -> 3
      [] severity = "Critical" -> 5

\* A score that takes the weight from the finding's phase.
RECURSIVE calculate_score_by_phase(_)
calculate_score_by_phase(fs) ==
    IF fs = << >> THEN 0
    ELSE (calculate_score_by_phase(SubSeq(fs, 1, Len(fs) - 1))
          + severity_score(fs[Len(fs)].severity) * phase_weight(fs[Len(fs)].phase))

\* calculate_score (scoring.rs 40-45): the iterator sum, left to right.  The
\* sums of the model stay far below u32::MAX, so no wrap-around is modelled.
RECURSIVE calculate_score(_)
calculate_score(fs) ==
    IF fs = << >> THEN 0
    ELSE (calculate_score(SubSeq(fs, 1, Len(fs) - 1))
          + severity_score(fs[Len(fs)].severity) * fs[Len(fs)].weight)

\* A verdict from the score thresholds alone, without the escalation.
determine_verdict_by_score(fs, sc) ==
    IF fs = << >> THEN "Clean"
    ELSE IF sc > 100 THEN "Critical"
    ELSE IF sc > 50 THEN "HighRisk"
    ELSE IF sc > 10 THEN "MediumRisk"
    ELSE "LowRisk"

\* A ladder whose thresholds belong to the tier above: 10, 50 and 100 already
\* give MediumRisk, HighRisk and Critical.
determine_verdict_inclusive(fs, sc) ==
    IF fs = << >> THEN "Clean"
    ELSE LET has_critical_install ==
                 \E i \in DOMAIN fs :
                     fs[i].phase = "InstallHooks" /\ fs[i].severity = "Critical"
         IN IF has_critical_install \/ sc >= 100 THEN "Critical"
            ELSE IF sc >= 50 THEN "HighRisk"
            ELSE IF sc >= 10 THEN "MediumRisk"
            ELSE "LowRisk"

\* A ladder that tests the lower threshold first, so that the band from 11 to
\* 50 is HighRisk and the band from 51 to 100 MediumRisk.
determine_verdict_swapped(fs, sc) ==
    IF fs = << >> THEN "Clean"
    ELSE LET has_critical_install ==
                 \E i \in DOMAIN fs :
                     fs[i].phase = "InstallHooks" /\ fs[i].severity = "Critical"
         IN IF has_critical_install \/ sc > 100 THEN "Critical"
            ELSE IF sc > 50 THEN "MediumRisk"
            ELSE IF sc > 10 THEN "HighRisk"
            ELSE "LowRisk"

\* determine_verdict (scoring.rs 56-79)
determine_verdict(fs, sc) ==
    IF fs = << >> THEN "Clean"
    ELSE LET has_critical_install ==
                 \E i \in DOMAIN fs :
                     fs[i].phase = "InstallHooks" /\ fs[i].severity = "Critical"
         IN IF has_critical_install \/ sc > 100 THEN "Critical"
            ELSE IF sc > 50 THEN "HighRisk"
            ELSE IF sc > 10 THEN "MediumRisk"
            ELSE "LowRisk"

\* ------------------------------------------------------- quarantine ledger

NoFile == [state |-> "absent", entries |-> << >>]
CorruptFile == [state |-> "corrupt", entries |-> << >>]

\* load_index (quarantine.rs 66-72): a missing file and an unparsable file
\* both give the empty list (Err(_) => Vec::new(), unwrap_or_default).
load_index(file) ==
    IF file.state = "ok" THEN file.entries ELSE << >>

\* save_index (quarantine.rs 75-85) when fs::write succeeds: the whole list
\* replaces the file's content.
save_index(entries) ==
    [state |-> "ok", entries |-> entries]

\* A lookup that falls back to the first record when no record has the id.
find_or_first(index, id) ==
    IF \E i \in DOMAIN index : index[i].id = id
    THEN CHOOSE i \in DOMAIN index :
             /\ index[i].id = id
             /\ \A j \in 1..(i - 1) : index[j].id # id
    ELSE IF index = << >> THEN 0 ELSE 1

\* iter_mut().find(|e| e.id == id): the position of the first record with
\* the id, 0 when there is none.
find(index, id) ==
    IF \E i \in DOMAIN index : index[i].id = id
    THEN CHOOSE i \in DOMAIN index :
             /\ index[i].id = id
             /\ \A j \in 1..(i - 1) : index[j].id # id
    ELSE 0

\* The result of an operation on the file system: the ledger file, the staging
\* directories, the Result's kind and the record returned with Ok.
Outcome(file, d, res, ret) ==
    [file |-> file, dirs |-> d, res |-> res, ret |-> ret]

\* fs::create_dir_all (quarantine.rs 97): an existing directory is kept as is.
create_dir_all(d, id) ==
    IF d[id] = "absent" THEN [d EXCEPT ![id] = "empty"] ELSE d

\* An intake that puts the new record in front of the others.
add_front(file, d, source, source_type, id, now, mk_ok, wr_ok) ==
    IF ~mk_ok THEN Outcome(file, d, "mkdir_failed", << >>)
    ELSE LET d1 == create_dir_all(d, id)
             entry == [id |-> id, source |-> source, source_type |-> source_type,
                       path |-> id, status |-> "Pending", created_at |-> now,
                       updated_at |-> now, reason |-> None, scan_score |-> None]
             index == <<entry>> \o load_index(file)
         IN IF wr_ok THEN Outcome(save_index(index), d1, "ok", <<entry>>)
            ELSE Outcome(file, d1, "write_failed", << >>)

\* add (quarantine.rs 93-123). id is short_id()'s value, now is Utc::now(),
\* mk_ok and wr_ok tell whether create_dir_all and fs::write succeed.
add(file, d, source, source_type, id, now, mk_ok, wr_ok) ==
    IF ~mk_ok THEN Outcome(file, d, "mkdir_failed", << >>)
    ELSE LET d1 == create_dir_all(d, id)
             entry == [id |-> id, source |-> source, source_type |-> source_type,
                       path |-> id, status |-> "Pending", created_at |-> now,
                       updated_at |-> now, reason |-> None, scan_score |-> None]
             index == Append(load_index(file), entry)
         IN IF wr_ok THEN Outcome(save_index(index), d1, "ok", <<entry>>)
            ELSE Outcome(file, d1, "write_failed", << >>)

\* approve without the check of quarantine.rs 133-138.
approve_any_status(file, d, id, reason, now, wr_ok) ==
    LET index == load_index(file)
        i == find(index, id)
    IN IF i = 0 THEN Outcome(file, d, "not_found", << >>)
       ELSE LET entry == [index[i] EXCEPT !.status = "Approved",
                                          !.updated_at = now,
                                          !.reason = reason]
            IN Outcome(save_index([index EXCEPT ![i] = entry]), d, "ok", <<entry>>)

\* approve (quarantine.rs 126-148)
approve(file, d, id, reason, now, wr_ok) ==
    LET index == load_index(file)
        i == find(index, id)
    IN IF i = 0 THEN Outcome(file, d, "not_found", << >>)
       ELSE IF index[i].status # "Pending" THEN Outcome(file, d, "already", << >>)
       ELSE LET entry == [index[i] EXCEPT !.status = "Approved",
                                          !.updated_at = now,
                                          !.reason = reason]
            IN IF wr_ok
               THEN Outcome(save_index([index EXCEPT ![i] = entry]), d, "ok", <<entry>>)
               ELSE Outcome(file, d, "write_failed", << >>)

\* reject without the check of quarantine.rs 159-164.
reject_any_status(file, d, id, reason, now, rm_ok, wr_ok) ==
    LET index == load_index(file)
        i == find(index, id)
    IN IF i = 0 THEN Outcome(file, d, "not_found", << >>)
       ELSE LET entry == [index[i] EXCEPT !.status = "Rejected",
                                          !.updated_at = now,
                                          !.reason = reason]
            IN Outcome(save_index([index EXCEPT ![i] = entry]),
                       [d EXCEPT ![entry.path] = "absent"], "ok", <<entry>>)

\* reject (quarantine.rs 152-179): the staging directory is removed (a failure
\* of remove_dir_all is dropped) before the ledger is saved.
reject(file, d, id, reason, now, rm_ok, wr_ok) ==
    LET index == load_index(file)
        i == find(index, id)
    IN IF i = 0 THEN Outcome(file, d, "not_found", << >>)
       ELSE IF index[i].status # "Pending" THEN Outcome(file, d, "already", << >>)
       ELSE LET entry == [index[i] EXCEPT !.status = "Rejected",
                                          !.updated_at = now,
                                          !.reason = reason]
                d1 == IF d[entry.path] # "absent" /\ rm_ok
                      THEN [d EXCEPT ![entry.path] = "absent"]
                      ELSE d
            IN IF wr_ok
               THEN Outcome(save_index([index EXCEPT ![i] = entry]), d1, "ok", <<entry>>)
               ELSE Outcome(file, d1, "write_failed", << >>)

\* Vec::into_iter().filter(|e| e.status == status).collect()
RECURSIVE filter_status(_, _)
filter_status(index, status) ==
    IF index = << >> THEN << >>
    ELSE LET rest == filter_status(Tail(index), status)
         IN IF Head(index).status = status THEN <<Head(index)>> \o rest ELSE rest

\* list (quarantine.rs 182-198); filter is None or a status.
list(file, filter) ==
    LET index == load_index(file)
    IN IF filter = None THEN index ELSE filter_status(index, filter)

\* ------------------------------------------------- clone / pip / npm

Finding(phase, severity, weight) ==
    [phase |-> phase, severity |-> severity, weight |-> weight]

\* What run_scan can report for a fetched artifact: the finding lists of the
\* scoring tests (scoring.rs 97-150), one per verdict.
Artifacts ==
    { << >>,
      <<Finding("Provenance", "Low", 1), Finding("Provenance", "Low", 1)>>,
      <<Finding("CodePatterns", "High", 5), Finding("NetworkExfil", "Medium", 3)>>,
      <<Finding("CodePatterns", "High", 5), Finding("CodePatterns", "High", 5),
        Finding("NetworkExfil", "High", 3), Finding("Obfuscation", "High", 5)>>,
      <<Finding("InstallHooks", "Critical", 10)>> }

\* Auto-approval of everything that is not Critical.
auto_approves_not_critical(auto_approve, v) ==
    auto_approve /\ v # "Critical"

\* The condition of step 4 (main.rs 410, 494, 576).
auto_approves(auto_approve, v) ==
    auto_approve /\ v = "LowRisk"

\* The exit code of cmd_clone, cmd_pip and cmd_npm (main.rs 422-426).
exit_code(v) ==
    CASE v = "LowRisk" -> 0
      [] v = "MediumRisk" -> 1
      [] OTHER -> 2

\* The body shared by cmd_clone (main.rs 355-427), cmd_pip (429-511) and
\* cmd_npm (513-593): add, fetch into the staging directory, run_scan,
\* auto-approve, exit code.  fetch_ok tells whether git/pip/npm succeeded,
\* fs is what run_scan finds.  Returns the file system after the command,
\* the record add returned, the approve Result and the exit code.
quarantine_and_scan(file, d, source, source_type, id, now, auto_approve, fetch_ok, fs, mk_ok, wr_ok, wr_ok2) ==
    LET a == add(file, d, source, source_type, id, now, mk_ok, wr_ok)
    IN IF a.res # "ok"
       THEN [file |-> a.file, dirs |-> a.dirs, res |-> a.res, ret |-> << >>,
             verdict |-> "none", score |-> 0, approve_res |-> "none", code |-> 1,
             clock |-> now]
       ELSE IF ~fetch_ok
       THEN [file |-> a.file, dirs |-> a.dirs, res |-> "fetch_failed", ret |-> a.ret,
             verdict |-> "none", score |-> 0, approve_res |-> "none", code |-> 1,
             clock |-> now]
       ELSE LET d1 == [a.dirs EXCEPT ![id] = "filled"]
                sc == calculate_score(fs)
                v == determine_verdict(fs, sc)
            IN IF auto_approves(auto_approve, v)
               THEN LET p == approve(a.file, d1, a.ret[1].id, AutoReason, now + 1, wr_ok2)
                    IN [file |-> p.file, dirs |-> p.dirs, res |-> "ok", ret |-> a.ret,
                        verdict |-> v, score |-> sc, approve_res |-> p.res,
                        code |-> exit_code(v), clock |-> now + 1]
               ELSE [file |-> a.file, dirs |-> d1, res |-> "ok", ret |-> a.ret,
                     verdict |-> v, score |-> sc, approve_res |-> "none",
                     code |-> exit_code(v), clock |-> now]

\* ------------------------------------------------------------- the scanner

\* make_finding (phases.rs 11-29).  An Option is a sequence: << >> for None,
\* <<x>> for Some(x).
make_finding(phase, rule, severity, file, line, snippet, weight) ==
    [phase |-> phase, rule |-> rule, severity |-> severity, file |-> file,
     line |-> line, snippet |-> snippet, weight |-> weight]

\* The scanned directory.  Paths are numbered: 1 and 2 are source files
\* ("a.py", "b.py") and 3 is a file with a binary extension ("lib.so"), all
\* at the top of the directory.  A modification time is in tenths of a second
\* since the epoch, and a file's content is one of three texts: one no
\* pattern matches, one with a line CODE-001 matches and one with a line
\* CRED-001 matches.
Paths == {1, 2, 3}
Sizes == {1, 2}
Mtimes == {10, 15, 20}
Contents == {"benign", "eval", "getenv"}
Absent == [size |-> 0, mtime |-> 0, content |-> "absent"]
Files == [size : Sizes, mtime : Mtimes, content : Contents]

\* The directories of the model.  The first file is a small file without
\* findings or differs from it in one respect: its size, its modification
\* time within the same second or in another second, or its content.  The
\* second file is missing or that small file.
SmallFile == [size |-> 1, mtime |-> 10, content |-> "benign"]
FirstFiles ==
    { SmallFile }
    \cup { [SmallFile EXCEPT !.size = n] : n \in Sizes }
    \cup { [SmallFile EXCEPT !.mtime = m] : m \in Mtimes }
    \cup { [SmallFile EXCEPT !.content = c] : c \in Contents }
TreeStates ==
    { t \in [Paths -> Files \cup {Absent}] :
          /\ t[1] \in FirstFiles
          /\ t[2] \in {Absent, SmallFile}
          /\ t[3] = Absent }

\* WalkDir's regular files (scanner/mod.rs 148-153), in path order.
RECURSIVE walk(_, _)
walk(t, from) ==
    IF from \notin Paths THEN << >>
    ELSE IF t[from] = Absent THEN walk(t, from + 1)
    ELSE <<from>> \o walk(t, from + 1)

\* A text is the sequence of its characters.  A character is the number of
\* bytes of its UTF-8 encoding, 1 to 4; 0 stands for a blank (one byte).
char_len(c) == IF c = 0 THEN 1 ELSE c

Ascii(n) == [i \in 1..n |-> 1]

\* The positions of the characters of a text that take more than one byte
wide_chars(text) == { i \in DOMAIN text : char_len(text[i]) > 1 }

\* The bytes that the characters at the positions in wide take beyond one
\* each
RECURSIVE extra_bytes(_, _)
extra_bytes(text, wide) ==
    IF wide = {} THEN 0
    ELSE LET i == CHOOSE j \in wide : TRUE
         IN (char_len(text[i]) - 1) + extra_bytes(text, wide \ {i})

\* The number of bytes of the first k characters of a text whose characters
\* of more than one byte are at the positions in wide
bytes_of(text, wide, k) == k + extra_bytes(text, { i \in wide : i <= k })

\* str::len: the length of a text in bytes
byte_len(text) == bytes_of(text, wide_chars(text), Len(text))

\* The number of characters of a text that end at byte n exactly; -1 if byte n
\* lies inside a character or behind the end (str::is_char_boundary is
\* false).  k characters take k bytes at least and k bytes and the extra
\* bytes of the text at most.
chars_to_byte(text, n) ==
    LET wide == wide_chars(text)
        ks == { k \in 0..Len(text) : k <= n /\ n <= k + extra_bytes(text, wide) }
    IN IF \E k \in ks : bytes_of(text, wide, k) = n
       THEN CHOOSE k \in ks : bytes_of(text, wide, k) = n
       ELSE -1

\* str::trim: without the blanks at its ends
RECURSIVE trim_start(_)
trim_start(text) ==
    IF text # << >> /\ Head(text) = 0 THEN trim_start(Tail(text)) ELSE text
RECURSIVE trim_end(_)
trim_end(text) ==
    IF text # << >> /\ text[Len(text)] = 0
    THEN trim_end(SubSeq(text, 1, Len(text) - 1)) ELSE text
trim(text) == trim_end(trim_start(text))

\* The further texts a scanned file may hold: a line of 201 ASCII characters
\* that calls eval(), lines that call eval() and hold one two-byte character
\* (as 'e' with an accent) behind 198 or 199 ASCII characters, a line that
\* calls eval() behind two blanks, and bytes that are not UTF-8.
LongContents == {"long_eval", "wide_eval", "wide_short_eval", "wide_late_eval",
                 "indented_eval", "binary"}

\* The one line of a content
line_of(contents) ==
    CASE contents = "eval" -> Ascii(7)
      [] contents = "getenv" -> Ascii(9)
      [] contents = "long_eval" -> Ascii(201)
      [] contents = "wide_eval" -> Ascii(199) \o <<2>> \o Ascii(5)
      [] contents = "wide_short_eval" -> Ascii(199) \o <<2>>
      [] contents = "wide_late_eval" -> Ascii(198) \o <<2>> \o Ascii(5)
      [] contents = "indented_eval" -> <<0, 0>> \o Ascii(7)
      [] OTHER -> Ascii(6)

\* format!("{} ...", ..) appends a blank and three dots (phases.rs 43)
Ellipsis == <<0, 1, 1, 1>>

\* &line[..200] panics when byte 200 is not a character boundary
\* (phases.rs 42-43)
scan_lines_panics(contents) ==
    LET line == line_of(contents)
    IN byte_len(line) > 200 /\ chars_to_byte(line, 200) = -1

\* scan_lines (phases.rs 32-63) on a content of one line that a pattern
\* matches; the finding's snippet is "description: snippet.trim()".
scan_lines(file, contents, phase, weight, rule, severity, description) ==
    LET line == line_of(contents)
        snippet == IF byte_len(line) > 200
                   THEN SubSeq(line, 1, chars_to_byte(line, 200)) \o Ellipsis
                   ELSE line
    IN IF scan_lines_panics(contents) THEN << >>
       ELSE <<make_finding(phase, rule, severity, file, <<1>>,
                           [description |-> description, text |-> trim(snippet)],
                           weight)>>

\* The contents with a line that the pattern of CODE-001 matches
\* (phases.rs 170)
EvalContents ==
    {"eval", "long_eval", "wide_eval", "wide_short_eval", "wide_late_eval",
     "indented_eval"}

\* scan_code_patterns (phases.rs 166-286) on the texts of the model
scan_code_patterns(file, contents) ==
    IF contents \in EvalContents
    THEN scan_lines(file, contents, "CodePatterns", 5, "CODE-001", "High",
                    "eval() call")
    ELSE << >>

\* scan_credentials (phases.rs 398-484) on the texts of the model
scan_credentials(file, contents) ==
    IF contents = "getenv"
    THEN scan_lines(file, contents, "Credentials", 2, "CRED-001", "High",
                    "Environment variable access for sensitive key")
    ELSE << >>

\* is_binary_extension (phases.rs 703-711) on the names of the model
is_binary_extension(file) == file = 3

\* scan_provenance (phases.rs 585-692).  It looks at names and sizes only.  No
\* name of the model is hidden or suspicious, no file is larger than 5 MB,
\* and the directory has no .git, package.json or setup.py.
RECURSIVE scan_provenance(_, _)
scan_provenance(t, es) ==
    IF es = << >> THEN << >>
    ELSE LET file == Head(es)
             binary == IF is_binary_extension(file)
                       THEN <<make_finding("Provenance", "PROV-002", "Medium", file,
                                           << >>,
                                           [description |->
                                                "Binary file in unexpected location",
                                            text |-> Ascii(6)],
                                           2)>>
                       ELSE << >>
         IN binary \o scan_provenance(t, Tail(es))

\* std::fs::read_to_string (scanner/mod.rs 163-166) fails on a file that is
\* not UTF-8.
readable(contents) == contents # "binary"

\* phase_from_name (scanner/mod.rs 103-113)
phase_from_name(name) ==
    CASE name \in {"install-hooks", "install_hooks", "installhooks"} -> <<"InstallHooks">>
      [] name \in {"code-patterns", "code_patterns", "codepatterns"} -> <<"CodePatterns">>
      [] name \in {"network-exfil", "network_exfil", "networkexfil"} -> <<"NetworkExfil">>
      [] name = "credentials" -> <<"Credentials">>
      [] name = "obfuscation" -> <<"Obfuscation">>
      [] name = "provenance" -> <<"Provenance">>
      [] OTHER -> << >>

\* severity_from_name (scanner/mod.rs 115-123)
severity_from_name(name) ==
    CASE name = "low" -> <<"Low">>
      [] name = "medium" -> <<"Medium">>
      [] name = "high" -> <<"High">>
      [] name = "critical" -> <<"Critical">>
      [] OTHER -> << >>

\* derive(PartialOrd, Ord) on Severity (scanner/mod.rs 40-46)
severity_ord(severity) ==
    CASE severity = "Low" -> 0
      [] severity = "Medium" -> 1
      [] severity = "High" -> 2
      [] severity = "Critical" -> 3

retain_all(fs, min) == fs

\* findings.retain(|f| f.severity >= min) (scanner/mod.rs 191-193)
RECURSIVE retain(_, _)
retain(fs, min) ==
    IF fs = << >> THEN << >>
    ELSE IF severity_ord(Head(fs).severity) >= severity_ord(min)
    THEN <<Head(fs)>> \o retain(Tail(fs), min)
    ELSE retain(Tail(fs), min)

\* The loop with a break in the place of its continue
RECURSIVE scan_entries_break(_, _, _)
scan_entries_break(t, es, active) ==
    IF es = << >> THEN << >>
    ELSE IF ~readable(t[Head(es)].content) THEN << >>
    ELSE LET file == Head(es)
             code == IF "CodePatterns" \in active
                     THEN scan_code_patterns(file, t[file].content) ELSE << >>
             cred == IF "Credentials" \in active
                     THEN scan_credentials(file, t[file].content) ELSE << >>
         IN code \o cred \o scan_entries_break(t, Tail(es), active)

\* The loop over the files (scanner/mod.rs 159-189): a file that cannot be
\* read is passed over.  The texts of the model match no pattern of the
\* install-hook, network and obfuscation phases.
RECURSIVE scan_entries(_, _, _)
scan_entries(t, es, active) ==
    IF es = << >> THEN << >>
    ELSE IF ~readable(t[Head(es)].content) THEN scan_entries(t, Tail(es), active)
    ELSE LET file == Head(es)
             code == IF "CodePatterns" \in active
                     THEN scan_code_patterns(file, t[file].content) ELSE << >>
             cred == IF "Credentials" \in active
                     THEN scan_credentials(file, t[file].content) ELSE << >>
         IN code \o cred \o scan_entries(t, Tail(es), active)

\* active_phases and should_run_phase of run_scan (scanner/mod.rs 135-146):
\* the phases that run.
active_phases(phase_filter) ==
    IF phase_filter = << >> THEN Phase
    ELSE { ph \in Phase : \E i \in DOMAIN phase_filter[1] :
                              phase_from_name(phase_filter[1][i]) = <<ph>> }

\* run_scan ends in a panic when a phase that runs slices a matching line of
\* a readable file inside a character.
run_scan_panics(t, phase_filter) ==
    \E file \in Paths :
        /\ t[file] # Absent
        /\ readable(t[file].content)
        /\ scan_lines_panics(t[file].content)
        /\ \/ "CodePatterns" \in active_phases(phase_filter)
              /\ t[file].content \in EvalContents
           \/ "Credentials" \in active_phases(phase_filter)
              /\ t[file].content = "getenv"

\* run_scan (scanner/mod.rs 125-206) when it returns.  phase_filter and
\* min_severity are Options; duration_ms is what the clock measured.
run_scan(t, phase_filter, min_severity, duration_ms) ==
    LET min_sev == IF min_severity = << >> THEN << >>
                   ELSE severity_from_name(min_severity[1])
        es == walk(t, 1)
        prov == IF "Provenance" \in active_phases(phase_filter)
                THEN scan_provenance(t, es) ELSE << >>
        found == prov \o scan_entries(t, es, active_phases(phase_filter))
        fs == IF min_sev = << >> THEN found ELSE retain(found, min_sev[1])
        sc == calculate_score(fs)
    IN [findings |-> fs, score |-> sc, verdict |-> determine_verdict(fs, sc),
        files_scanned |-> Len(es), duration_ms |-> duration_ms]

\* ----------------------------------------------------------- the scan cache

\* CACHE_VERSION (cache.rs 15) and the limit save_to_cache hands to
\* prune_cache (cache.rs 100).
CACHE_VERSION == 1
MAX_ENTRIES == 100

\* d.as_secs() (cache.rs 44): whole seconds of a time in tenths of a second.
as_secs(mtime) == mtime \div 10

\* file_map of compute_directory_hash (cache.rs 27-48): path, size and
\* modification time in whole seconds of every regular file, in path order.
RECURSIVE file_map(_, _)
file_map(t, from) ==
    IF from \notin Paths THEN << >>
    ELSE IF t[from] = Absent THEN file_map(t, from + 1)
    ELSE <<[path |-> from, size |-> t[from].size, mtime |-> as_secs(t[from].mtime)]>>
         \o file_map(t, from + 1)

\* The sum of the paths hashed.
RECURSIVE path_sum(_)
path_sum(bytes) ==
    IF bytes = << >> THEN 0 ELSE Head(bytes).path + path_sum(Tail(bytes))

\* hex::encode(Sha256(...)) (cache.rs 50-56).  SHA-256 is taken to have no
\* collisions: the digest is the bytes hashed.  Its first 16 hexadecimal
\* characters are shared by different inputs: here by all listings over the
\* same paths.
sha256_hex(bytes) == [head |-> path_sum(bytes), digest |-> bytes]

\* compute_directory_hash (cache.rs 25-57)
compute_directory_hash(t) == sha256_hex(file_map(t, 1))

\* &dir_hash[..16], the cache file's name (cache.rs 69, 96)
hex16(dir_hash) == dir_hash.head

\* A text that leaves out the duration: reading it gives a duration of 0.
to_string_skip_duration(entry) ==
    <<entry.version, entry.directory_hash, [entry.result EXCEPT !.duration_ms = 0]>>

\* serde_json::to_string(&entry) and serde_json::from_str (cache.rs 72, 97):
\* the text lists the fields of CacheEntry (cache.rs 17-22) in order; a text
\* that is not such a list does not parse.
to_string(entry) == <<entry.version, entry.directory_hash, entry.result>>
from_str(data) ==
    IF Len(data) = 3
    THEN <<[version |-> data[1], directory_hash |-> data[2], result |-> data[3]]>>
    ELSE << >>

\* A load that trusts the file name: it does not compare the stored hash.
load_cached_by_name(t, c) ==
    LET dir_hash == compute_directory_hash(t)
        cache_file == hex16(dir_hash)
    IN IF cache_file \notin DOMAIN c THEN << >>
       ELSE LET entry == from_str(c[cache_file].data)
            IN IF entry = << >> THEN << >>
               ELSE IF entry[1].version = CACHE_VERSION
               THEN <<entry[1].result>>
               ELSE << >>

\* load_cached (cache.rs 67-79)
load_cached(t, c) ==
    LET dir_hash == compute_directory_hash(t)
        cache_file == hex16(dir_hash)
    IN IF cache_file \notin DOMAIN c THEN << >>
       ELSE LET entry == from_str(c[cache_file].data)
            IN IF entry = << >> THEN << >>
               ELSE IF entry[1].version = CACHE_VERSION /\ entry[1].directory_hash = dir_hash
               THEN <<entry[1].result>>
               ELSE << >>

\* A prune that removes the newest files.
prune_cache_newest(c, max_entries) ==
    LET n == Cardinality(DOMAIN c)
    IN IF n <= max_entries THEN c
       ELSE LET removed ==
                    { f \in DOMAIN c :
                          Cardinality({ g \in DOMAIN c : c[g].mtime > c[f].mtime })
                              < n - max_entries }
            IN [f \in DOMAIN c \ removed |-> c[f]]

\* prune_cache (cache.rs 105-126): the files sorted by modification time, the
\* first len - max_entries of them removed.  The modification times of the
\* cache files all differ (see save_to_cache), so the sort has one outcome.
prune_cache(c, max_entries) ==
    LET n == Cardinality(DOMAIN c)
    IN IF n <= max_entries THEN c
       ELSE LET removed ==
                    { f \in DOMAIN c :
                          Cardinality({ g \in DOMAIN c : c[g].mtime < c[f].mtime })
                              < n - max_entries }
            IN [f \in DOMAIN c \ removed |-> c[f]]

\* The metadata of the directory's files as the file system holds them.
metadata(t) ==
    [p \in { q \in Paths : t[q] # Absent } |-> [size |-> t[p].size, mtime |-> t[p].mtime]]

\* save_to_cache (cache.rs 82-103) at time now, which the file system gives
\* the written file as its modification time.  stored_for is not part of the
\* file: it remembers the metadata of the directory the entry was stored for.
save_to_cache(t, c, result, now) ==
    LET dir_hash == compute_directory_hash(t)
        entry == [version |-> CACHE_VERSION, directory_hash |-> dir_hash,
                  result |-> result]
        cache_file == hex16(dir_hash)
        written == [f \in DOMAIN c \cup {cache_file} |->
                        IF f = cache_file
                        THEN [data |-> to_string(entry), mtime |-> now,
                              stored_for |-> metadata(t)]
                        ELSE c[f]]
    IN prune_cache(written, MAX_ENTRIES)

\* The exit code of cmd_scan (main.rs 631-634 for a cached result, 730-733
\* for a fresh one).
scan_exit_code(v) ==
    CASE v = "LowRisk" -> 0
      [] OTHER -> 2

\* ---------------------------------------------------------- the diff engine

\* A finding that is only in the list if line is Some.
same_finding_some_line(f, finding) ==
    f.rule = finding.rule /\ f.file = finding.file /\ f.line = finding.line
        /\ f.line # << >>

\* A finding that is in the list with all its fields.
same_finding_all_fields(f, finding) ==
    f = finding

\* The closure handed to any() (diff.rs 27 and 40)
same_finding(f, finding) ==
    f.rule = finding.rule /\ f.file = finding.file /\ f.line = finding.line

\* findings.iter().any(...) (diff.rs 24-27 and 37-40)
exists_in(finding, fs) ==
    \E i \in DOMAIN fs : same_finding(fs[i], finding)

\* The loop over current.findings (diff.rs 23-34): the findings pushed to
\* unchanged_findings, or those pushed to new_findings, in order.
RECURSIVE current_loop(_, _, _)
current_loop(cur, prev, unchanged) ==
    IF cur = << >> THEN << >>
    ELSE IF exists_in(Head(cur), prev) = unchanged
    THEN <<Head(cur)>> \o current_loop(Tail(cur), prev, unchanged)
    ELSE current_loop(Tail(cur), prev, unchanged)

\* The loop over previous.findings (diff.rs 36-44)
RECURSIVE previous_loop(_, _)
previous_loop(prev, cur) ==
    IF prev = << >> THEN << >>
    ELSE IF ~exists_in(Head(prev), cur)
    THEN <<Head(prev)>> \o previous_loop(Tail(prev), cur)
    ELSE previous_loop(Tail(prev), cur)

\* A difference of unsigned scores that stops at zero.
score_delta_saturating(prev, cur) ==
    IF cur.score >= prev.score THEN cur.score - prev.score ELSE 0

\* current.score as i64 - previous.score as i64 (diff.rs 46)
score_delta(prev, cur) ==
    cur.score - prev.score

\* diff_scans (diff.rs 18-67).  The summary is the list of the values format!
\* puts into its text.
diff_scans(prev, cur) ==
    LET new_findings == current_loop(cur.findings, prev.findings, FALSE)
        unchanged_findings == current_loop(cur.findings, prev.findings, TRUE)
        resolved_findings == previous_loop(prev.findings, cur.findings)
        delta == score_delta(prev, cur)
    IN [new_findings |-> new_findings,
        resolved_findings |-> resolved_findings,
        unchanged_findings |-> unchanged_findings,
        score_delta |-> delta,
        previous_verdict |-> prev.verdict,
        current_verdict |-> cur.verdict,
        summary |-> <<Len(new_findings), Len(resolved_findings), Len(unchanged_findings),
                      prev.score, cur.score, IF delta >= 0 THEN "+" ELSE "", delta>>]

\* ----------------------------------------------------------------- actions

NoDirs == [i \in Ids |-> "absent"]

LastOf(op, id, res, ret, auto, v, approve_res, code) ==
    [op |-> op, id |-> id, res |-> res, ret |-> ret, auto |-> auto,
     verdict |-> v, score |-> 0, approve_res |-> approve_res, code |-> code]

\* The two processes of the concurrent runs, and a process that runs nothing.
Procs == {1, 2}
NoRequest == [kind |-> "none", id |-> "none"]
Idle == [req |-> NoRequest, pc |-> "idle", loc |-> << >>, now |-> 0, res |-> "none"]
NoBase == [file |-> NoFile, dirs |-> NoDirs]

\* The scanner, the cache and the diff engine before any of them has run.
NoResult ==
    [findings |-> << >>, score |-> 0, verdict |-> "none", files_scanned |-> 0,
     duration_ms |-> 0]
NoOut == [op |-> "none", no_cache |-> FALSE, phases |-> "all", severity |-> "low",
          phase_filter |-> << >>, min_severity |-> << >>, use_cache |-> FALSE, found |-> FALSE, hit |-> FALSE,
          saved |-> FALSE, result |-> NoResult, code |-> 0]
NoDiff ==
    [new_findings |-> << >>, resolved_findings |-> << >>, unchanged_findings |-> << >>,
     score_delta |-> 0, previous_verdict |-> "none", current_verdict |-> "none",
     summary |-> << >>]
NoDiffs == [fwd |-> NoDiff, back |-> NoDiff]

\* The commands of the ledger do not scan a directory of their own choice and
\* do not use the cache or the diff engine.
InitIdleScan ==
    /\ tree = [p \in Paths |-> Absent]
    /\ cache = << >>
    /\ cclock = 0
    /\ out = NoOut
InitIdleDiff ==
    /\ previous = NoResult
    /\ current = NoResult
    /\ diff = NoDiffs

\* No signatures.json, no signatures_meta.json, no call yet
NoCloud == [signatures |-> << >>, meta |-> << >>]
NoResponse == [io |-> "ok", signatures |-> << >>, last_updated |-> ""]
NoSync ==
    [op |-> "none", force |-> FALSE, response |-> NoResponse, since |-> << >>,
     local |-> << >>, res |-> "none", ret |-> 0]
InitIdleSigs ==
    /\ cloud = NoCloud
    /\ sync = NoSync

Init ==
    /\ proc = [p \in Procs |-> Idle]
    /\ base = NoBase
    /\ index_file = NoFile
    /\ dirs = NoDirs
    /\ clock = 0
    /\ last = LastOf("none", "none", "none", << >>, FALSE, "none", "none", 0)
    /\ finalized = {}
    /\ findings = << >>
    /\ score = 0
    /\ stage = "input"
    /\ verdict = "none"
    /\ InitIdleScan
    /\ InitIdleDiff
    /\ InitIdleSigs

\* quarantine::add called on its own.  IO is the set of outcomes (success or
\* not) the file system calls may have.
Add(IO) ==
    \E source_type \in SourceTypes, id \in Ids, mk_ok \in IO, wr_ok \in IO :
        /\ clock < MaxClock
        /\ LET r == add(index_file, dirs, "src", source_type, id, clock + 1, mk_ok, wr_ok)
           IN /\ index_file' = r.file
              /\ dirs' = r.dirs
              /\ last' = LastOf("add", id, r.res, r.ret, FALSE, "none", "none", 0)
        /\ clock' = clock + 1
        /\ UNCHANGED <<finalized, findings, score, stage, verdict, proc, base, kvars, dvars, gvars>>

\* cmd_approve (main.rs 911-931)
Approve(IO) ==
    \E id \in Ids, reason \in Reasons, wr_ok \in IO :
        /\ clock < MaxClock
        /\ LET r == approve(index_file, dirs, id, reason, clock + 1, wr_ok)
           IN /\ index_file' = r.file
              /\ dirs' = r.dirs
              /\ last' = LastOf("approve", id, r.res, r.ret, FALSE, "none", "none",
                                IF r.res = "ok" THEN 0 ELSE 1)
              /\ finalized' = IF r.res = "ok" THEN finalized \cup {id} ELSE finalized
        /\ clock' = clock + 1
        /\ UNCHANGED <<svars, cvars, kvars, dvars, gvars>>

\* cmd_reject (main.rs 933-953)
Reject(IO) ==
    \E id \in Ids, reason \in Reasons, rm_ok \in IO, wr_ok \in IO :
        /\ clock < MaxClock
        /\ LET r == reject(index_file, dirs, id, reason, clock + 1, rm_ok, wr_ok)
           IN /\ index_file' = r.file
              /\ dirs' = r.dirs
              /\ last' = LastOf("reject", id, r.res, r.ret, FALSE, "none", "none",
                                IF r.res = "ok" THEN 0 ELSE 1)
              /\ finalized' = IF r.res = "ok" THEN finalized \cup {id} ELSE finalized
        /\ clock' = clock + 1
        /\ UNCHANGED <<svars, cvars, kvars, dvars, gvars>>

\* cmd_list (main.rs 955-971)
List ==
    \E filter \in {None} \cup QuarantineStatus :
        /\ last' = LastOf("list", "none", "ok", list(index_file, filter), FALSE,
                          "none", "none", 0)
        /\ UNCHANGED <<index_file, dirs, clock, finalized, findings, score, stage, verdict,
                       proc, base, kvars, dvars, gvars>>

\* cmd_clone, cmd_pip, cmd_npm
Cmd(op, source_type, IO) ==
    \E id \in Ids, auto_approve \in BOOLEAN, fetch_ok \in BOOLEAN, fs \in Artifacts,
       mk_ok \in IO, wr_ok \in IO, wr_ok2 \in IO :
        /\ clock + 2 <= MaxClock
        /\ LET r == quarantine_and_scan(index_file, dirs, "src", source_type, id,
                                        clock + 1, auto_approve, fetch_ok, fs,
                                        mk_ok, wr_ok, wr_ok2)
           IN /\ index_file' = r.file
              /\ dirs' = r.dirs
              /\ clock' = r.clock
              /\ last' = [LastOf(op, id, r.res, r.ret, auto_approve, r.verdict,
                                 r.approve_res, r.code) EXCEPT !.score = r.score]
              /\ finalized' = IF r.approve_res = "ok" THEN finalized \cup {id}
                              ELSE finalized
        /\ UNCHANGED <<svars, cvars, kvars, dvars, gvars>>

cmd_clone(IO) == Cmd("clone", "git", IO)
cmd_pip(IO) == Cmd("pip", "pip", IO)
cmd_npm(IO) == Cmd("npm", "npm", IO)

\* The commands on a file system whose calls all succeed.
Healthy == {TRUE}

Next ==
    \/ Add(Healthy)
    \/ Approve(Healthy)
    \/ Reject(Healthy)
    \/ List
    \/ cmd_clone(Healthy)
    \/ cmd_pip(Healthy)
    \/ cmd_npm(Healthy)

Spec == Init /\ [][Next]_vars

\* --------------------------------------------- a file system that fails

\* The ledger file gets content that is not a JSON array of records (a torn
\* write, an edit by hand): serde_json::from_str fails on it.
Corrupt ==
    /\ index_file.state = "ok"
    /\ index_file' = CorruptFile
    /\ last' = LastOf("corrupt", "none", "none", << >>, FALSE, "none", "none", 0)
    /\ UNCHANGED <<dirs, clock, finalized, svars, cvars, kvars, dvars, gvars>>

\* The content of a file that fs::write has truncated and not yet filled, or
\* filled in part: it does not parse.
PartialFile == [state |-> "partial", entries |-> << >>]

\* save_index's fs::write(&path, json) (quarantine.rs 83) creates or truncates
\* index.json and then writes the text into it.  A process that is terminated
\* in add, approve or reject when it has reached that call leaves the file as
\* it was, truncated or partly written, or complete.  last.ret remembers the
\* list that was being written.
Kill ==
    \E op \in {"add", "approve", "reject"}, id \in Ids, reason \in Reasons :
        /\ clock < MaxClock
        /\ LET r == CASE op = "add" ->
                            add(index_file, dirs, "src", "git", id, clock + 1, TRUE, TRUE)
                       [] op = "approve" ->
                            approve(index_file, dirs, id, reason, clock + 1, TRUE)
                       [] op = "reject" ->
                            reject(index_file, dirs, id, reason, clock + 1, TRUE, TRUE)
           IN /\ r.res = "ok"
              /\ index_file' \in {index_file, PartialFile, r.file}
              /\ dirs' = r.dirs
              /\ last' = LastOf("kill", id, "killed", r.file.entries, FALSE, "none",
                                "none", 0)
        /\ clock' = clock + 1
        /\ UNCHANGED <<finalized, svars, cvars, kvars, dvars, gvars>>

\* The commands on a file system whose calls may fail (create_dir_all,
\* fs::write, remove_dir_all), and whose ledger file may become unparsable.
NextFault ==
    \/ Add(BOOLEAN)
    \/ Approve(BOOLEAN)
    \/ Reject(BOOLEAN)
    \/ List
    \/ cmd_clone(BOOLEAN)
    \/ cmd_pip(BOOLEAN)
    \/ cmd_npm(BOOLEAN)
    \/ Corrupt
    \/ Kill

SpecFault == Init /\ [][NextFault]_vars

\* ------------------------------------------ two processes on one ledger

\* Two sigil processes run one quarantine operation each, with no lock on
\* index.json (quarantine.rs holds none): a step is one file system call with
\* the computation that follows it.

Requests == { [kind |-> k, id |-> i] : k \in {"add", "approve", "reject"}, i \in Ids }

\* The file systems the processes may start on: no ledger, and the one add
\* leaves with a Pending record a.
BaseStates ==
    { NoBase,
      [file |-> add(NoFile, NoDirs, "src", "git", "a", 1, TRUE, TRUE).file,
       dirs |-> add(NoFile, NoDirs, "src", "git", "a", 1, TRUE, TRUE).dirs] }

InitConc ==
    /\ base \in BaseStates
    /\ index_file = base.file
    /\ dirs = base.dirs
    /\ clock = Len(load_index(base.file))
    /\ proc \in [Procs -> { [req |-> r, pc |-> "start", loc |-> << >>, now |-> 0,
                             res |-> "none"] : r \in Requests }]
    /\ last = LastOf("none", "none", "none", << >>, FALSE, "none", "none", 0)
    /\ finalized = {}
    /\ findings = << >>
    /\ score = 0
    /\ stage = "input"
    /\ verdict = "none"
    /\ InitIdleScan
    /\ InitIdleDiff
    /\ InitIdleSigs

\* add, quarantine.rs 94-116: short_id, create_dir_all, Utc::now.
add_create_dir(p) ==
    /\ proc[p].pc = "start"
    /\ proc[p].req.kind = "add"
    /\ dirs' = create_dir_all(dirs, proc[p].req.id)
    /\ clock' = clock + 1
    /\ proc' = [proc EXCEPT ![p].pc = "created", ![p].now = clock + 1]
    /\ UNCHANGED <<index_file, last, finalized, svars, base, kvars, dvars, gvars>>

\* add, quarantine.rs 118: let mut index = load_index().
add_load_index(p) ==
    /\ proc[p].pc = "created"
    /\ proc' = [proc EXCEPT ![p].pc = "loaded", ![p].loc = load_index(index_file)]
    /\ UNCHANGED <<index_file, dirs, clock, last, finalized, svars, base, kvars, dvars, gvars>>

\* add, quarantine.rs 119-122: push the record, save_index, Ok.
add_save_index(p) ==
    /\ proc[p].pc = "loaded"
    /\ proc[p].req.kind = "add"
    /\ LET id == proc[p].req.id
           entry == [id |-> id, source |-> "src", source_type |-> "git",
                     path |-> id, status |-> "Pending", created_at |-> proc[p].now,
                     updated_at |-> proc[p].now, reason |-> None, scan_score |-> None]
       IN index_file' = save_index(Append(proc[p].loc, entry))
    /\ proc' = [proc EXCEPT ![p].pc = "done", ![p].res = "ok"]
    /\ UNCHANGED <<dirs, clock, last, finalized, svars, base, kvars, dvars, gvars>>

\* approve and reject, quarantine.rs 127-142 and 153-168: load_index, the
\* lookup, the status check and the change of the loaded record.
finalize_load_index(p) ==
    /\ proc[p].pc = "start"
    /\ proc[p].req.kind \in {"approve", "reject"}
    /\ LET index == load_index(index_file)
           i == find(index, proc[p].req.id)
       IN IF i = 0
          THEN /\ proc' = [proc EXCEPT ![p].pc = "done", ![p].res = "not_found"]
               /\ clock' = clock
          ELSE IF index[i].status # "Pending"
          THEN /\ proc' = [proc EXCEPT ![p].pc = "done", ![p].res = "already"]
               /\ clock' = clock
          ELSE /\ proc' = [proc EXCEPT
                              ![p].pc = "changed",
                              ![p].now = clock + 1,
                              ![p].loc = [index EXCEPT
                                  ![i].status = IF proc[p].req.kind = "approve"
                                                THEN "Approved" ELSE "Rejected",
                                  ![i].updated_at = clock + 1,
                                  ![i].reason = None]]
               /\ clock' = clock + 1
    /\ UNCHANGED <<index_file, dirs, last, finalized, svars, base, kvars, dvars, gvars>>

\* reject, quarantine.rs 171-173: remove_dir_all on the record's path.
reject_remove_dir(p) ==
    /\ proc[p].pc = "changed"
    /\ proc[p].req.kind = "reject"
    /\ dirs' = [dirs EXCEPT ![proc[p].req.id] = "absent"]
    /\ proc' = [proc EXCEPT ![p].pc = "removed"]
    /\ UNCHANGED <<index_file, clock, last, finalized, svars, base, kvars, dvars, gvars>>

\* approve, quarantine.rs 144-147, and reject, 175-178: save_index, Ok.
finalize_save_index(p) ==
    /\ \/ proc[p].pc = "changed" /\ proc[p].req.kind = "approve"
       \/ proc[p].pc = "removed" /\ proc[p].req.kind = "reject"
    /\ index_file' = save_index(proc[p].loc)
    /\ proc' = [proc EXCEPT ![p].pc = "done", ![p].res = "ok"]
    /\ UNCHANGED <<dirs, clock, last, finalized, svars, base, kvars, dvars, gvars>>

NextConc ==
    \E p \in Procs :
        \/ add_create_dir(p)
        \/ add_load_index(p)
        \/ add_save_index(p)
        \/ finalize_load_index(p)
        \/ reject_remove_dir(p)
        \/ finalize_save_index(p)

SpecConc == InitConc /\ [][NextConc]_vars

\* The operation of a request run alone, start to end.
run_alone(req, fsys, now) ==
    CASE req.kind = "add" ->
             add(fsys.file, fsys.dirs, "src", "git", req.id, now, TRUE, TRUE)
      [] req.kind = "approve" ->
             approve(fsys.file, fsys.dirs, req.id, None, now, TRUE)
      [] req.kind = "reject" ->
             reject(fsys.file, fsys.dirs, req.id, None, now, TRUE, TRUE)

\* ---------------------------------------------------- the scoring engine

\* The findings the phases module creates: every finding of a phase carries
\* the phase's weight (phases.rs 66, 161, 289, 393, 487), a Provenance
\* finding a weight of its own, 1 to 3 (phases.rs 580-668).
FindingUniverse ==
    { Finding(p, s, phase_weight(p)) : p \in Phase \ {"Provenance"}, s \in Severity }
    \cup { Finding("Provenance", s, w) : s \in Severity, w \in 1..3 }

FindingLists ==
    UNION { [1..n -> FindingUniverse] : n \in 0..MaxFindings }

\* Scores a caller may hand to determine_verdict: the values around the
\* thresholds of the ladder.
ScoreInputs == {0, 10, 11, 50, 51, 100, 101}

InitScore ==
    /\ proc = [p \in Procs |-> Idle]
    /\ base = NoBase
    /\ index_file = NoFile
    /\ dirs = NoDirs
    /\ clock = 0
    /\ last = LastOf("none", "none", "none", << >>, FALSE, "none", "none", 0)
    /\ finalized = {}
    /\ findings \in FindingLists
    /\ score \in ScoreInputs
    /\ stage = "input"
    /\ verdict = "none"
    /\ InitIdleScan
    /\ InitIdleDiff
    /\ InitIdleSigs

\* let score = scoring::calculate_score(&findings) (scanner/mod.rs 196)
CalculateScore ==
    /\ stage = "input"
    /\ verdict = "none"
    /\ score' = calculate_score(findings)
    /\ stage' = "scored"
    /\ UNCHANGED <<findings, verdict>>
    /\ UNCHANGED <<qvars, cvars, kvars, dvars, gvars>>

\* let verdict = scoring::determine_verdict(&findings, score) (scanner/mod.rs 197)
DetermineVerdict ==
    /\ verdict = "none"
    /\ verdict' = determine_verdict(findings, score)
    /\ UNCHANGED <<findings, score, stage>>
    /\ UNCHANGED <<qvars, cvars, kvars, dvars, gvars>>

NextScore ==
    \/ CalculateScore
    \/ DetermineVerdict

SpecScore == InitScore /\ [][NextScore]_vars

\* ------------------------------------------------------------ sigil scan

MaxSaves == 2

\* What --phases and --severity are given, and what the scan's clock measures.
PhaseArgs == {"all", "credentials"}
SeverityArgs == {"low", "critical"}
Durations == {7}

\* The result run_scan returns for a directory without findings.
CleanResult(files_scanned, duration_ms) ==
    [findings |-> << >>, score |-> 0, verdict |-> "Clean",
     files_scanned |-> files_scanned, duration_ms |-> duration_ms]

\* A cache that holds the results of n scans of other directories, each
\* directory a single file whose path is none of the model's and gives a file
\* name of its own, written at the times 1 to n.
OtherEntries(n) ==
    LET offset == path_sum(file_map([p \in Paths |-> CHOOSE x \in Files : TRUE], 1))
    IN [f \in { offset + k : k \in 1..n } |->
            LET bytes == <<[path |-> f, size |-> 1, mtime |-> as_secs(10)]>>
            IN [data |-> to_string([version |-> CACHE_VERSION,
                                    directory_hash |-> sha256_hex(bytes),
                                    result |-> CleanResult(1, 3)]),
                mtime |-> f - offset,
                stored_for |-> [p \in {f} |-> [size |-> 1, mtime |-> 10]]]]

InitScan ==
    /\ proc = [p \in Procs |-> Idle]
    /\ base = NoBase
    /\ index_file = NoFile
    /\ dirs = NoDirs
    /\ clock = 0
    /\ last = LastOf("none", "none", "none", << >>, FALSE, "none", "none", 0)
    /\ finalized = {}
    /\ findings = << >>
    /\ score = 0
    /\ stage = "input"
    /\ verdict = "none"
    /\ InitIdleDiff
    /\ InitIdleSigs
    /\ tree \in TreeStates
    /\ cache \in { OtherEntries(n) : n \in {0, MAX_ENTRIES - 1, MAX_ENTRIES} }
    /\ cclock = MAX_ENTRIES
    /\ out = NoOut

\* cmd_scan (main.rs 596-734) on an existing path, the directory unchanged
\* while it runs.  The enrichment and the submission (main.rs 675-728) read
\* the result and change nothing.  out.found tells whether load_cached found
\* a file of the name it looked for.
use_cache_unless_disabled(no_cache, phases, severity) == ~no_cache

\* main.rs 622: the cache is used for a full unfiltered scan only
use_cache(no_cache, phases, severity) ==
    ~no_cache /\ phases = "all" /\ severity = "low"

cmd_scan ==
    /\ \E no_cache \in BOOLEAN, phases \in PhaseArgs, severity \in SeverityArgs,
          duration_ms \in Durations :
           LET uc == use_cache(no_cache, phases, severity)
               cached == IF uc THEN load_cached(tree, cache) ELSE << >>
               found == uc /\ hex16(compute_directory_hash(tree)) \in DOMAIN cache
               phase_filter == IF phases = "all" THEN << >> ELSE << <<phases>> >>
               min_severity == IF severity = "low" THEN << >> ELSE <<severity>>
               result == run_scan(tree, phase_filter, min_severity, duration_ms)
           IN IF cached # << >>
              THEN /\ out' = [op |-> "scan", no_cache |-> no_cache, phases |-> phases,
                              severity |-> severity, phase_filter |-> phase_filter,
                              min_severity |-> min_severity, use_cache |-> uc,
                              found |-> found,
                              hit |-> TRUE, saved |-> FALSE, result |-> cached[1],
                              code |-> scan_exit_code(cached[1].verdict)]
                   /\ UNCHANGED <<tree, cache, cclock>>
              ELSE /\ uc => cclock < MAX_ENTRIES + MaxSaves
                   /\ cache' = IF uc
                               THEN save_to_cache(tree, cache, result, cclock + 1)
                               ELSE cache
                   /\ cclock' = IF uc THEN cclock + 1 ELSE cclock
                   /\ out' = [op |-> "scan", no_cache |-> no_cache, phases |-> phases,
                              severity |-> severity, phase_filter |-> phase_filter,
                              min_severity |-> min_severity, use_cache |-> uc,
                              found |-> found,
                              hit |-> FALSE, saved |-> uc, result |-> result,
                              code |-> scan_exit_code(result.verdict)]
                   /\ UNCHANGED tree
    /\ UNCHANGED <<qvars, svars, cvars, dvars, gvars>>

\* Between two scans the directory is changed: files are written, touched,
\* added or removed.
Modify ==
    /\ \E t \in TreeStates :
           /\ t # tree
           /\ tree' = t
    /\ out' = [NoOut EXCEPT !.op = "modify"]
    /\ UNCHANGED <<cache, cclock>>
    /\ UNCHANGED <<qvars, svars, cvars, dvars, gvars>>

NextScan ==
    \/ cmd_scan
    \/ Modify

SpecScan == InitScan /\ [][NextScan]_vars

\* ---------------------------------------------------------------- run_scan

\* The directories run_scan is called on: the first file holds any content,
\* the second is missing, without findings or calls eval(), and the file with
\* the binary extension is missing, is text or is not UTF-8.
RunTrees ==
    { t \in [Paths -> [size : Sizes, mtime : Mtimes,
                       content : Contents \cup LongContents] \cup {Absent}] :
          /\ t[1] \in { [SmallFile EXCEPT !.content = c] :
                           c \in Contents \cup LongContents }
          /\ t[2] \in {Absent, SmallFile, [SmallFile EXCEPT !.content = "eval"]}
          /\ t[3] \in {Absent, SmallFile, [SmallFile EXCEPT !.content = "binary"]} }

\* The arguments of run_scan: no filter, one phase, two phases, a name that is
\* no phase; no minimum and the four severities.
PhaseFilters ==
    { << >>, << <<"credentials">> >>, << <<"code-patterns", "provenance">> >>,
      << <<"everything">> >> }
MinSeverities == { << >>, <<"low">>, <<"medium">>, <<"high">>, <<"critical">> }

InitRun ==
    /\ InitIdleDiff
    /\ InitIdleSigs
    /\ proc = [p \in Procs |-> Idle]
    /\ base = NoBase
    /\ index_file = NoFile
    /\ dirs = NoDirs
    /\ clock = 0
    /\ last = LastOf("none", "none", "none", << >>, FALSE, "none", "none", 0)
    /\ finalized = {}
    /\ findings = << >>
    /\ score = 0
    /\ stage = "input"
    /\ verdict = "none"
    /\ tree \in RunTrees
    /\ cache = << >>
    /\ cclock = 0
    /\ out = NoOut

\* One call of run_scan (scanner/mod.rs 125-206): it returns a ScanResult or
\* ends in the panic of a slice.
RunScan ==
    /\ \E phase_filter \in PhaseFilters, min_severity \in MinSeverities,
          duration_ms \in Durations :
           out' = IF run_scan_panics(tree, phase_filter)
                  THEN [NoOut EXCEPT !.op = "panic", !.phase_filter = phase_filter,
                                     !.min_severity = min_severity]
                  ELSE [NoOut EXCEPT !.op = "run_scan", !.phase_filter = phase_filter,
                                     !.min_severity = min_severity,
                                     !.result = run_scan(tree, phase_filter,
                                                         min_severity, duration_ms)]
    /\ UNCHANGED <<tree, cache, cclock>>
    /\ UNCHANGED <<qvars, svars, cvars, dvars, gvars>>

NextRun == RunScan

SpecRun == InitRun /\ [][NextRun]_vars

\* ------------------------------------------------------------ sigil diff

MaxDiffFindings == 2

\* Findings of two files: two that differ in severity, snippet, phase and
\* weight only, one on another line, one without a line and one in another
\* file.
DiffUniverse ==
    { make_finding("CodePatterns", "CODE-001", "High", 1, <<1>>, "eval() call", 5),
      make_finding("Obfuscation", "CODE-001", "Critical", 1, <<1>>, "exec() call", 3),
      make_finding("CodePatterns", "CODE-001", "High", 1, <<2>>, "eval() call", 5),
      make_finding("Provenance", "PROV-001", "Low", 1, << >>, "Hidden file", 1),
      make_finding("CodePatterns", "CODE-001", "High", 2, <<1>>, "eval() call", 5) }

\* The ScanResults handed to diff_scans: what run_scan makes of a list of
\* findings (scanner/mod.rs 195-205).
DiffResults ==
    { [findings |-> fs, score |-> calculate_score(fs),
       verdict |-> determine_verdict(fs, calculate_score(fs)),
       files_scanned |-> 2, duration_ms |-> 3] :
          fs \in UNION { [1..n -> DiffUniverse] : n \in 0..MaxDiffFindings } }

InitDiff ==
    /\ proc = [p \in Procs |-> Idle]
    /\ base = NoBase
    /\ index_file = NoFile
    /\ dirs = NoDirs
    /\ clock = 0
    /\ last = LastOf("none", "none", "none", << >>, FALSE, "none", "none", 0)
    /\ finalized = {}
    /\ findings = << >>
    /\ score = 0
    /\ stage = "input"
    /\ verdict = "none"
    /\ InitIdleScan
    /\ InitIdleSigs
    /\ previous \in DiffResults
    /\ current \in DiffResults
    /\ diff = NoDiffs

\* diff::diff_scans(&baseline_result, &current_result) (main.rs 812)
DiffScans ==
    /\ diff.fwd = NoDiff
    /\ diff' = [diff EXCEPT !.fwd = diff_scans(previous, current)]
    /\ UNCHANGED <<previous, current>>
    /\ UNCHANGED <<qvars, svars, cvars, kvars, gvars>>

\* The same call with the two results exchanged.
DiffScansBack ==
    /\ diff.back = NoDiff
    /\ diff' = [diff EXCEPT !.back = diff_scans(current, previous)]
    /\ UNCHANGED <<previous, current>>
    /\ UNCHANGED <<qvars, svars, cvars, kvars, gvars>>

NextDiff ==
    \/ DiffScans
    \/ DiffScansBack

SpecDiff == InitDiff /\ [][NextDiff]_vars

\* ------------------------------------------------------- cloud signatures

MaxFetched == 2

\* CloudSignature (cloud_sigs.rs 9-18): the id and the pattern; phase,
\* severity, description and updated_at travel with the pattern.
SigIds == {1, 2, 3}
Patterns == {"old", "new"}
CloudSignatures == [id : SigIds, pattern : Patterns]

\* The lists of signatures a response may hold: any signatures in any order
FetchedLists == UNION { [1..n -> CloudSignatures] : n \in 0..MaxFetched }

\* The lists signatures.json may hold: get_signatures alone writes the file,
\* so no id is there twice.  The file of the model holds old patterns.
LocalLists ==
    { l \in UNION { [1..n -> CloudSignatures] : n \in 0..Cardinality(SigIds) } :
          /\ \A i \in DOMAIN l : l[i].pattern = "old"
          /\ \A i, j \in DOMAIN l : l[i].id = l[j].id => i = j }

\* load_cloud_signatures (cloud_sigs.rs 48-62): the list in the file, empty
\* without a file
load_cloud_signatures(c) == c.signatures

\* get_last_sync_time (cloud_sigs.rs 65-72)
get_last_sync_time(c) == c.meta

\* all_sigs.iter().position(|s| s.id == new_sig.id) (api.rs 246)
position(all_sigs, id) ==
    IF \E i \in DOMAIN all_sigs : all_sigs[i].id = id
    THEN <<CHOOSE i \in DOMAIN all_sigs :
               /\ all_sigs[i].id = id
               /\ \A j \in 1..(i - 1) : all_sigs[j].id # id>>
    ELSE << >>

upsert_move(all_sigs, new_sig) ==
    Append(SelectSeq(all_sigs, LAMBDA x : x.id # new_sig.id), new_sig)

\* The body of the loop over the fetched signatures (api.rs 246-250)
upsert(all_sigs, new_sig) ==
    LET pos == position(all_sigs, new_sig.id)
    IN IF pos # << >> THEN [all_sigs EXCEPT ![pos[1]] = new_sig]
       ELSE Append(all_sigs, new_sig)

\* The loop over the fetched signatures (api.rs 245-251)
RECURSIVE upsert_all(_, _)
upsert_all(all_sigs, fetched) ==
    IF fetched = << >> THEN all_sigs
    ELSE upsert_all(upsert(all_sigs, Head(fetched)), Tail(fetched))

\* get_signatures (api.rs 201-276).  response.io tells whether the request
\* and the write succeed: "http" stands for a failed request, a status that
\* is no success and a body that does not parse, "write" for a failed
\* fs::write.
get_signatures(c, force, response) ==
    LET since == IF force THEN << >> ELSE get_last_sync_time(c)
        all_sigs == upsert_all(IF force THEN << >> ELSE load_cloud_signatures(c),
                               response.signatures)
    IN IF response.io = "http"
       THEN [cloud |-> c, since |-> since, res |-> "Err", ret |-> 0]
       ELSE IF response.io = "write"
       THEN [cloud |-> c, since |-> since, res |-> "Err", ret |-> 0]
       ELSE [cloud |-> [signatures |-> all_sigs,
                        meta |-> IF response.last_updated # ""
                                 THEN <<response.last_updated>> ELSE c.meta],
             since |-> since, res |-> "Ok", ret |-> Len(all_sigs)]

\* The responses of the server
Responses ==
    [io : {"ok", "http", "write"}, signatures : FetchedLists,
     last_updated : {"", "t1"}]

InitSigs ==
    /\ InitIdleScan
    /\ InitIdleDiff
    /\ proc = [p \in Procs |-> Idle]
    /\ base = NoBase
    /\ index_file = NoFile
    /\ dirs = NoDirs
    /\ clock = 0
    /\ last = LastOf("none", "none", "none", << >>, FALSE, "none", "none", 0)
    /\ finalized = {}
    /\ findings = << >>
    /\ score = 0
    /\ stage = "input"
    /\ verdict = "none"
    /\ \E l \in LocalLists :
           cloud = [signatures |-> l, meta |-> IF l = << >> THEN << >> ELSE <<"t0">>]
    /\ \E force \in BOOLEAN, response \in Responses :
           sync = [NoSync EXCEPT !.op = "request", !.force = force,
                                 !.response = response]

\* One call of get_signatures
GetSignatures ==
    /\ sync.op = "request"
    /\ LET r == get_signatures(cloud, sync.force, sync.response)
       IN /\ cloud' = r.cloud
          /\ sync' = [sync EXCEPT !.op = "get_signatures", !.since = r.since,
                                  !.local = load_cloud_signatures(cloud),
                                  !.res = r.res, !.ret = r.ret]
    /\ UNCHANGED <<qvars, svars, cvars, kvars, dvars>>

NextSigs == GetSignatures

SpecSigs == InitSigs /\ [][NextSigs]_vars

\* ------------------------------------------------ claims: the ledger

entries == index_file.entries
CmdOps == {"clone", "pip", "npm"}
FinalizeOps == {"approve", "reject"}

\* C1: each ledger entry changes status at most once and only from Pending:
\* in every step, a record that is Approved or Rejected is still in the ledger
\* at its position with the same status, reason and updated timestamp.
C1_TerminalStatus ==
    [][\A i \in DOMAIN entries :
           entries[i].status # "Pending" =>
               /\ i \in DOMAIN entries'
               /\ entries'[i].status = entries[i].status
               /\ entries'[i].reason = entries[i].reason
               /\ entries'[i].updated_at = entries[i].updated_at]_vars

\* An approve or reject call has been refused on a Rejected record.
C1_Witness ==
    /\ last.op \in FinalizeOps
    /\ last.res = "already"
    /\ \E i \in DOMAIN entries :
           /\ entries[i].id = last.id
           /\ entries[i].status = "Rejected"
           /\ entries[i].updated_at < clock

\* C2: approve or reject on an id whose record (the first with that id, the one
\* the lookup addresses) is Pending returns Ok with the updated record; an
\* approve or reject call on an id on which one has succeeded before fails
\* with "already ..." and changes neither the ledger file nor the directories.
C2_OnceOnly ==
    [][/\ \A i \in DOMAIN entries :
              ( /\ last'.op \in FinalizeOps
                /\ find(entries, last'.id) = i
                /\ entries[i].status = "Pending" ) =>
                  /\ last'.res = "ok"
                  /\ last'.ret = <<entries'[i]>>
                  /\ entries'[i].status =
                         (IF last'.op = "approve" THEN "Approved" ELSE "Rejected")
                  /\ entries'[i].updated_at = clock'
       /\ ( last'.op \in FinalizeOps /\ last'.id \in finalized ) =>
              /\ last'.res = "already"
              /\ index_file' = index_file
              /\ dirs' = dirs]_vars

\* A reject call has been refused on an id that approve finalized before.
C2_Witness ==
    /\ last.op = "reject"
    /\ last.res = "already"
    /\ last.id \in finalized
    /\ entries[find(entries, last.id)].status = "Approved"

\* C3: a record becomes Approved only in an approve call or in a clone, pip or
\* npm command run with auto_approve whose scan verdict is LowRisk; any other
\* clone, pip or npm command that created a record leaves it, the last record
\* of the ledger, Pending.
C3_ApprovedOnlyExplicitly ==
    [][/\ \A i \in DOMAIN entries' :
              ( /\ entries'[i].status = "Approved"
                /\ (i \in DOMAIN entries => entries[i].status # "Approved") ) =>
                  \/ last'.op = "approve"
                  \/ /\ last'.op \in CmdOps
                     /\ last'.auto
                     /\ last'.verdict = "LowRisk"
       /\ ( /\ last'.op \in CmdOps
            /\ last'.ret # << >>
            /\ ~(last'.auto /\ last'.verdict = "LowRisk") ) =>
              /\ Len(entries') = Len(entries) + 1
              /\ entries'[Len(entries')] = last'.ret[1]
              /\ entries'[Len(entries')].status = "Pending"]_vars

\* A clone with auto_approve whose scan was not LowRisk left its record Pending.
C3_Witness ==
    /\ last.op = "clone"
    /\ last.auto
    /\ last.verdict \in {"MediumRisk", "HighRisk", "Critical"}
    /\ entries # << >>
    /\ entries[Len(entries)].status = "Pending"
    /\ dirs[entries[Len(entries)].path] = "filled"

\* C5: when the ledger file exists but cannot be parsed, every quarantine
\* operation (intake on its own or within clone, pip, npm; approve; reject;
\* list) fails with an error and leaves the ledger file unchanged.
C5_CorruptLedgerIsFatal ==
    [][( /\ index_file.state = "corrupt"
         /\ last'.op \in {"add", "approve", "reject", "list"} \cup CmdOps ) =>
           /\ last'.res # "ok"
           /\ index_file' = index_file]_vars

\* C6: approve or reject with an id that no ledger record has fails with
\* "not found" and changes neither the ledger file nor any staging directory.
C6_UnknownId ==
    [][( /\ last'.op \in FinalizeOps
         /\ \A i \in DOMAIN entries : entries[i].id # last'.id ) =>
           /\ last'.res = "not_found"
           /\ last'.ret = << >>
           /\ index_file' = index_file
           /\ dirs' = dirs]_vars

\* A reject call with an unknown id was refused while another record is Pending
\* and its staging directory exists.
C6_Witness ==
    /\ last.op = "reject"
    /\ last.res = "not_found"
    /\ \E i \in DOMAIN entries :
           entries[i].status = "Pending" /\ dirs[entries[i].path] # "absent"

\* C7: the staging directory of a ledger entry exists exactly when the entry's
\* status is not Rejected.
C7_DirIffNotRejected ==
    \A i \in DOMAIN entries :
        (dirs[entries[i].path] # "absent") <=> (entries[i].status # "Rejected")

\* C8: the ids of the ledger's records are pairwise distinct.
C8_DistinctIds ==
    \A i, j \in DOMAIN entries : i # j => entries[i].id # entries[j].id

\* ------------------------------------------- claims: the scoring engine

HasCriticalInstall(fs) ==
    \E i \in DOMAIN fs : fs[i].phase = "InstallHooks" /\ fs[i].severity = "Critical"

\* C9: whenever the findings contain an InstallHooks finding of severity
\* Critical, determine_verdict returns Critical, whatever the score.
C9_CriticalInstallEscalates ==
    (verdict # "none" /\ HasCriticalInstall(findings)) => verdict = "Critical"

\* The escalation decided a verdict for a score that alone gives LowRisk, with
\* the critical install hook not the first finding.
C9_Witness ==
    /\ verdict = "Critical"
    /\ stage = "input"
    /\ score <= 10
    /\ Len(findings) = 2
    /\ ~HasCriticalInstall(<<findings[1]>>)
    /\ HasCriticalInstall(findings)

\* severity_base of the scoring contract.
SeverityBase == [Low |-> 1, Medium |-> 2, High |-> 3, Critical |-> 5]

\* The sum over a set of positions of severity_base(severity) * weight.
RECURSIVE WeightedSum(_, _)
WeightedSum(fs, S) ==
    IF S = {} THEN 0
    ELSE LET i == CHOOSE x \in S : TRUE
         IN SeverityBase[fs[i].severity] * fs[i].weight + WeightedSum(fs, S \ {i})

\* C10: calculate_score returns the sum over the findings of
\* severity_base(severity) * weight, with the finding's own weight, and returns
\* the same for every reordering of the findings.
C10_ScoreIsWeightedSum ==
    stage = "scored" =>
        /\ score = WeightedSum(findings, DOMAIN findings)
        /\ \A p \in Permutations(DOMAIN findings) :
               calculate_score([i \in DOMAIN findings |-> findings[p[i]]]) = score

\* Two different findings were scored, one with a weight that is not its
\* phase's weight.
C10_Witness ==
    /\ stage = "scored"
    /\ Len(findings) = 2
    /\ findings[1] # findings[2]
    /\ findings[1].weight # phase_weight(findings[1].phase)
    /\ score = 3 * 3 + 5 * 10

\* ------------------------------------------ claims: concurrent processes

\* A ledger without its timestamps.
Untimed(index) ==
    [i \in DOMAIN index |->
        [id |-> index[i].id, source_type |-> index[i].source_type,
         status |-> index[i].status, reason |-> index[i].reason]]

\* The ledger and the two Results of the processes run one after the other,
\* first then second, from the file system both started on.
SerialRun(first, second) ==
    LET r1 == run_alone(proc[first].req, base, 0)
        r2 == run_alone(proc[second].req, [file |-> r1.file, dirs |-> r1.dirs], 0)
    IN [ledger |-> Untimed(load_index(r2.file)),
        res |-> [p \in Procs |-> IF p = first THEN r1.res ELSE r2.res]]

\* C4: when two quarantine operations have run concurrently, the persisted
\* ledger (timestamps aside) and the two Results are those of running the two
\* operations in one of the two serial orders.
C4_Serializable ==
    (\A p \in Procs : proc[p].pc = "done") =>
        [ledger |-> Untimed(load_index(index_file)),
         res |-> [p \in Procs |-> proc[p].res]]
            \in {SerialRun(1, 2), SerialRun(2, 1)}

\* C11: determine_verdict returns Clean when there are no findings, whatever
\* the score; with findings and no Critical InstallHooks finding it returns
\* LowRisk for a score of at most 10, MediumRisk above 10 up to 50, HighRisk
\* above 50 up to 100 and Critical above 100.
C11_VerdictLadder ==
    verdict # "none" =>
        IF findings = << >> THEN verdict = "Clean"
        ELSE ~HasCriticalInstall(findings) =>
                 /\ score <= 10 => verdict = "LowRisk"
                 /\ (10 < score /\ score <= 50) => verdict = "MediumRisk"
                 /\ (50 < score /\ score <= 100) => verdict = "HighRisk"
                 /\ score > 100 => verdict = "Critical"

\* determine_verdict was handed the upper end of the MediumRisk band with
\* findings that do not escalate.
C11_Witness ==
    /\ verdict = "MediumRisk"
    /\ stage = "input"
    /\ score = 50
    /\ findings # << >>
    /\ ~HasCriticalInstall(findings)

\* The order of the verdict tiers.
TierRank == [Clean |-> 0, LowRisk |-> 1, MediumRisk |-> 2, HighRisk |-> 3, Critical |-> 4]

\* C12: for fixed findings the verdict never falls as the score rises: the
\* verdict for a score is no higher than the verdict for any larger score and
\* no lower than the verdict for any smaller one.
C12_VerdictMonotone ==
    verdict # "none" =>
        \A s \in ScoreInputs :
            /\ score <= s => TierRank[verdict] <= TierRank[determine_verdict(findings, s)]
            /\ s <= score => TierRank[determine_verdict(findings, s)] <= TierRank[verdict]

\* determine_verdict returned HighRisk for findings that get a lower tier for
\* a smaller score and a higher tier for a larger one.
C12_Witness ==
    /\ verdict = "HighRisk"
    /\ stage = "input"
    /\ score = 51
    /\ determine_verdict(findings, 10) = "LowRisk"
    /\ determine_verdict(findings, 101) = "Critical"

\* ------------------------------------- claims: auto-approval and exit codes

\* C14: when auto_approve is set and the scan passes (verdict Clean, that is
\* no findings, or LowRisk), the record the clone, pip or npm command created,
\* the last of the ledger, ends Approved with the reason "auto-approved: low
\* risk scan".
C14_PassingScanAutoApproved ==
    ( /\ last.op \in CmdOps
      /\ last.res = "ok"
      /\ last.auto
      /\ last.verdict \in {"Clean", "LowRisk"} ) =>
        /\ entries # << >>
        /\ entries[Len(entries)] =
               [last.ret[1] EXCEPT !.status = "Approved", !.reason = AutoReason,
                                   !.updated_at = entries[Len(entries)].updated_at]

\* C13: a scan command exits with code 0 when the scan's verdict is the lowest
\* tier of the ladder, Clean, the tier of a scan without findings, and with
\* a code other than 0 for every higher tier, for a fresh scan and for a
\* result served from the cache alike.
C13_ExitZeroIffLowestTier ==
    out.op = "scan" => (out.code = 0 <=> out.result.verdict = "Clean")

\* ------------------------------------------------- claims: the scan cache

\* The file name load_cached and save_to_cache use for the directory.
cache_file == hex16(compute_directory_hash(tree))

\* C15: a scan that stored its ScanResult with save_to_cache, followed by a
\* load for the same unmodified directory, gets a ScanResult identical to the
\* stored one: findings in the same order, score, verdict, files_scanned and
\* duration.
C15_StoreThenLoad ==
    [][( /\ out.op = "scan"
         /\ out.saved
         /\ out'.op = "scan"
         /\ out'.use_cache ) =>
           /\ out'.hit
           /\ out'.result = out.result]_vars

\* A result with a finding was served from a cache that was pruned to its
\* limit when the result was stored.
C15_Witness ==
    /\ out.op = "scan"
    /\ out.hit
    /\ out.result.findings # << >>
    /\ out.result.duration_ms > 0
    /\ Cardinality(DOMAIN cache) = MAX_ENTRIES

\* The metadata with the modification times cut to whole seconds.
WholeSeconds(m) ==
    [p \in DOMAIN m |-> [size |-> m[p].size, mtime |-> m[p].mtime \div 10]]

\* C16 as stated: a load is a miss unless the cache holds, under the
\* directory's file name, an entry stored for a directory with the same
\* files, sizes and modification times.
C16_MissAfterAnyChange ==
    [][( /\ out'.op = "scan"
         /\ out'.use_cache
         /\ \/ cache_file \notin DOMAIN cache
            \/ cache[cache_file].stored_for # metadata(tree) ) =>
           ~out'.hit]_vars

\* C16: a load is a miss unless the cache holds, under the directory's file
\* name, an entry of the current format version stored for a directory with
\* the same files, sizes and modification times in whole seconds; this
\* includes the loads that find a file of that name stored for another
\* fingerprint.
C16_MissAfterChange ==
    [][( /\ out'.op = "scan"
         /\ out'.use_cache
         /\ \/ cache_file \notin DOMAIN cache
            \/ WholeSeconds(cache[cache_file].stored_for) # WholeSeconds(metadata(tree))
            \/ cache[cache_file].data[1] # CACHE_VERSION ) =>
           ~out'.hit]_vars

\* A load found a file of the directory's name, stored for another
\* fingerprint, and missed.
C16_Witness ==
    /\ out.op = "scan"
    /\ out.use_cache
    /\ out.found
    /\ ~out.hit

\* C17: after every save_to_cache the cache directory holds at most 100
\* entries, the entry just written is among them, and no entry that was
\* evicted is newer than one that was kept.
C17_PrunedToLimit ==
    [][out'.saved =>
           /\ Cardinality(DOMAIN cache') <= 100
           /\ cache_file \in DOMAIN cache'
           /\ cache'[cache_file].mtime = cclock'
           /\ cache'[cache_file].data[3] = out'.result
           /\ \A f \in DOMAIN cache \ DOMAIN cache' : \A g \in DOMAIN cache' :
                  cache[f].mtime <= cache'[g].mtime]_vars

\* A save into a full cache evicted the oldest entry and kept the one it
\* wrote.
C17_Witness ==
    /\ out.saved
    /\ Cardinality(DOMAIN cache) = MAX_ENTRIES
    /\ \E f \in DOMAIN cache : cache[f].mtime = cclock
    /\ \A f \in DOMAIN cache : cache[f].mtime > 1

\* ------------------------------------------------ claims: the diff engine

\* The key of a finding, and the keys of a list of findings.
Key(f) == <<f.rule, f.file, f.line>>
Keys(fs) == { Key(fs[i]) : i \in DOMAIN fs }

\* C18: the diff of a ScanResult with itself has no new and no resolved
\* findings, has every finding of the result among the unchanged ones, in
\* order, and a score_delta of 0, also when several findings of the result
\* have the same (rule, file, line).
C18_SelfDiff ==
    (diff.fwd # NoDiff /\ previous = current) =>
        /\ diff.fwd.new_findings = << >>
        /\ diff.fwd.resolved_findings = << >>
        /\ diff.fwd.unchanged_findings = current.findings
        /\ diff.fwd.score_delta = 0

\* A result with two different findings of one key was compared with itself.
C18_Witness ==
    /\ diff.fwd # NoDiff
    /\ previous = current
    /\ Len(current.findings) = 2
    /\ current.findings[1] # current.findings[2]
    /\ Key(current.findings[1]) = Key(current.findings[2])

\* C19: the new findings of diff_scans(A, B) are the resolved findings of
\* diff_scans(B, A), and the score_delta of the one is the negation of the
\* other's.
C19_SwapNegates ==
    (diff.fwd # NoDiff /\ diff.back # NoDiff) =>
        /\ diff.fwd.new_findings = diff.back.resolved_findings
        /\ diff.fwd.resolved_findings = diff.back.new_findings
        /\ diff.fwd.score_delta = 0 - diff.back.score_delta

\* Both diffs were computed for results of which the current one has a new
\* finding and the lower score.
C19_Witness ==
    /\ diff.fwd # NoDiff
    /\ diff.back # NoDiff
    /\ diff.fwd.new_findings # << >>
    /\ diff.fwd.score_delta < 0

\* C20: every current finding is in exactly one of new_findings and
\* unchanged_findings, in unchanged_findings exactly if a previous finding has
\* its (rule, file, line); a previous finding is in resolved_findings exactly
\* if no current finding has its (rule, file, line); the other fields of a
\* finding play no part.
C20_ClassifiedByKey ==
    diff.fwd # NoDiff =>
        LET InPrevious(f) == Key(f) \in Keys(previous.findings)
            NotInPrevious(f) == Key(f) \notin Keys(previous.findings)
            NotInCurrent(f) == Key(f) \notin Keys(current.findings)
        IN /\ diff.fwd.unchanged_findings = SelectSeq(current.findings, InPrevious)
           /\ diff.fwd.new_findings = SelectSeq(current.findings, NotInPrevious)
           /\ diff.fwd.resolved_findings = SelectSeq(previous.findings, NotInCurrent)
           /\ Len(diff.fwd.new_findings) + Len(diff.fwd.unchanged_findings)
                  = Len(current.findings)

\* A current finding that differs from the previous one of its key in
\* severity, snippet, phase and weight was classified as unchanged, next to a
\* new and a resolved finding.
C20_Witness ==
    /\ diff.fwd # NoDiff
    /\ Len(diff.fwd.unchanged_findings) = 1
    /\ \A i \in DOMAIN previous.findings :
           previous.findings[i] # diff.fwd.unchanged_findings[1]
    /\ diff.fwd.new_findings # << >>
    /\ diff.fwd.resolved_findings # << >>

\* ------------------------------------- claims: the ledger, second part

\* The position of the first record of a ledger with an id.
FirstWithId(index, id) ==
    CHOOSE i \in DOMAIN index :
        /\ index[i].id = id
        /\ \A j \in 1..(i - 1) : index[j].id # id

\* after is before with the status, updated timestamp and reason of the first
\* record with the id changed and nothing else.
OnlyFirstFinalized(before, after, id) ==
    /\ \E i \in DOMAIN before : before[i].id = id
    /\ Len(after) = Len(before)
    /\ LET i == FirstWithId(before, id)
       IN /\ \A j \in DOMAIN before : j # i => after[j] = before[j]
          /\ after[i] = [before[i] EXCEPT !.status = after[i].status,
                                          !.updated_at = after[i].updated_at,
                                          !.reason = after[i].reason]

\* C30: a successful intake appends exactly one Pending record at the end of
\* the ledger and leaves the records before it unchanged; a successful approve
\* or reject changes only the status, updated timestamp and reason of the
\* first record with the given id and nothing else of the ledger.  A clone,
\* pip or npm command is an intake, followed by an approve when it
\* auto-approves.
C30_FrameOfOperations ==
    [][/\ (last'.op = "add" /\ last'.res = "ok") =>
              /\ last'.ret[1].status = "Pending"
              /\ entries' = Append(entries, last'.ret[1])
       /\ (last'.op \in FinalizeOps /\ last'.res = "ok") =>
              OnlyFirstFinalized(entries, entries', last'.id)
       /\ (last'.op \in CmdOps /\ last'.ret # << >>) =>
              /\ last'.ret[1].status = "Pending"
              /\ IF last'.approve_res = "ok"
                 THEN OnlyFirstFinalized(Append(entries, last'.ret[1]), entries', last'.id)
                 ELSE entries' = Append(entries, last'.ret[1])]_vars

\* A reject succeeded on a ledger of two records with its id: the first was
\* changed, the second was not.
C30_Witness ==
    /\ last.op = "reject"
    /\ last.res = "ok"
    /\ Len(entries) = 2
    /\ entries[1].id = last.id
    /\ entries[2].id = last.id
    /\ entries[1].status = "Rejected"
    /\ entries[2].status = "Pending"

\* C23: after a clone, pip or npm command has scanned the artifact it
\* quarantined, the scan_score of the record it created, the last of the
\* persisted ledger, is the score of that scan.
C23_ScanScoreRecorded ==
    ( /\ last.op \in CmdOps
      /\ last.res = "ok"
      /\ last.verdict # "none" ) =>
        /\ entries # << >>
        /\ entries[Len(entries)].scan_score # None
        /\ entries[Len(entries)].scan_score = last.score

\* C26: reject deletes the staging directory only after the ledger with the
\* Rejected status has been persisted: whenever reject returns an error, a
\* failed ledger write included, the staging directories and the persisted
\* ledger are as before the call, the record still Pending; and a reject whose
\* deletion fails still succeeds and persists the Rejected status.
C26_RejectDeletesAfterPersist ==
    [][/\ (last'.op = "reject" /\ last'.res # "ok") =>
              /\ dirs' = dirs
              /\ index_file' = index_file
       /\ (last'.op = "reject" /\ last'.res = "ok") =>
              entries'[FirstWithId(entries, last'.id)].status = "Rejected"]_vars

\* C25: if the process terminates at any point of a ledger write, the
\* persisted ledger file holds the complete previous content or the complete
\* new content, never an empty or partly written file.
C25_WritesAreAtomic ==
    [][last'.op = "kill" =>
           \/ index_file' = index_file
           \/ index_file' = [state |-> "ok", entries |-> last'.ret]]_vars

\* C27: whenever cmd_scan serves a result from the cache, its findings, score
\* and verdict are those of a fresh unfiltered scan of the directory as it is
\* now.
C27_CachedResultIsFresh ==
    (out.op = "scan" /\ out.hit) =>
        LET fresh == run_scan(tree, << >>, << >>, out.result.duration_ms)
        IN /\ out.result.findings = fresh.findings
           /\ out.result.score = fresh.score
           /\ out.result.verdict = fresh.verdict

\* C28: a scan run with no_cache, a phase filter or a higher minimum severity
\* never returns a cached result and leaves the cache as it is; whatever
\* cmd_scan stores is the result of an unfiltered scan, and a cached result
\* is served to a full unfiltered scan only.
C28_CacheOnlyForFullScans ==
    [][out'.op = "scan" =>
           /\ (out'.no_cache \/ out'.phases # "all" \/ out'.severity # "low") =>
                  /\ ~out'.hit
                  /\ cache' = cache
                  /\ out'.result = run_scan(tree, IF out'.phases = "all" THEN << >>
                                                  ELSE << <<out'.phases>> >>,
                                            IF out'.severity = "low" THEN << >>
                                            ELSE <<out'.severity>>,
                                            out'.result.duration_ms)
           /\ cache' # cache =>
                  /\ ~out'.no_cache /\ out'.phases = "all" /\ out'.severity = "low"
                  /\ out'.result = run_scan(tree, << >>, << >>, out'.result.duration_ms)
           /\ out'.hit =>
                  ~out'.no_cache /\ out'.phases = "all" /\ out'.severity = "low"]_vars

\* A filtered scan of a directory whose unfiltered result is in the cache: it
\* scanned afresh and its findings are not the cached ones.
C28_Witness ==
    /\ out.op = "scan"
    /\ ~out.no_cache
    /\ out.phases = "credentials"
    /\ ~out.hit
    /\ load_cached(tree, cache) # << >>
    /\ load_cached(tree, cache)[1].findings # << >>
    /\ out.result.findings = << >>

\* C21: for every phase filter and minimum severity, the ScanResult run_scan
\* returns holds no finding below the minimum severity and no finding of a
\* phase outside the filter, and its score and verdict are calculate_score
\* and determine_verdict of the findings it holds.
C21_FilteredAndScored ==
    out.op = "run_scan" =>
        LET fs == out.result.findings
        IN /\ \A i \in DOMAIN fs :
                  /\ \A name \in {"low", "medium", "high", "critical"} :
                         out.min_severity = <<name>> =>
                             severity_ord(fs[i].severity)
                                 >= severity_ord(severity_from_name(name)[1])
                  /\ out.phase_filter # << >> =>
                         \E j \in DOMAIN out.phase_filter[1] :
                             phase_from_name(out.phase_filter[1][j]) = <<fs[i].phase>>
           /\ out.result.score = calculate_score(fs)
           /\ out.result.verdict = determine_verdict(fs, out.result.score)

\* A scan with a minimum severity and a phase filter that kept one finding
\* and dropped others: the directory holds a file that calls eval() and the
\* file with the binary extension.
C21_Witness ==
    /\ out.op = "run_scan"
    /\ out.min_severity = <<"high">>
    /\ out.phase_filter = << <<"code-patterns", "provenance">> >>
    /\ tree[3] # Absent
    /\ tree[1].content = "getenv"
    /\ Len(out.result.findings) = 1
    /\ out.result.findings[1].rule = "CODE-001"
    /\ out.result.score > 0

\* The files of a directory that cannot be read as text
Unreadable(t) == { p \in Paths : t[p] # Absent /\ ~readable(t[p].content) }

\* C22 as stated: a file that cannot be read as text is counted in
\* files_scanned, contributes no finding at all and does not stop the scan.
C22_UnreadableNoFindingAtAll ==
    out.op = "run_scan" =>
        /\ out.result.files_scanned = Cardinality({ p \in Paths : tree[p] # Absent })
        /\ \A i \in DOMAIN out.result.findings :
               out.result.findings[i].file \notin Unreadable(tree)

\* C22: a file that cannot be read as text is counted in files_scanned,
\* contributes no finding of a phase that reads contents (scan_provenance
\* alone, which looks at names and sizes, may report it), and does not stop
\* the scan: every finding is the one the scan returns when the file holds a
\* text that nothing matches.
C22_UnreadableSkipped ==
    out.op = "run_scan" =>
        /\ out.result.files_scanned = Cardinality({ p \in Paths : tree[p] # Absent })
        /\ \A i \in DOMAIN out.result.findings :
               out.result.findings[i].file \in Unreadable(tree) =>
                   out.result.findings[i].phase = "Provenance"
        /\ out.result.findings =
               run_scan([p \in Paths |-> IF p \in Unreadable(tree)
                                         THEN [tree[p] EXCEPT !.content = "benign"]
                                         ELSE tree[p]],
                        out.phase_filter, out.min_severity,
                        out.result.duration_ms).findings

\* A scan of three files, the first not readable, that reported the second
\* file's call of eval().
C22_Witness ==
    /\ out.op = "run_scan"
    /\ tree[1] # Absent
    /\ tree[1].content = "binary"
    /\ tree[2] # Absent
    /\ tree[2].content = "eval"
    /\ out.result.files_scanned = 3
    /\ \E i \in DOMAIN out.result.findings :
           /\ out.result.findings[i].file = 2
           /\ out.result.findings[i].rule = "CODE-001"

\* The files of a directory with a matching line longer than 200 characters
LongLines(t) ==
    { p \in Paths : /\ t[p] # Absent
                    /\ t[p].content \in EvalContents
                    /\ Len(line_of(t[p].content)) > 200 }

\* C29: a match on a line longer than 200 characters never aborts the scan,
\* and its finding's snippet holds the line's first 200 characters followed
\* by an ellipsis.
C29_SnippetTruncated ==
    (out.op \in {"run_scan", "panic"} /\ out.min_severity = << >>
        /\ out.phase_filter = << >>) =>
        /\ out.op = "run_scan"
        /\ \A p \in LongLines(tree) :
               \E i \in DOMAIN out.result.findings :
                   /\ out.result.findings[i].file = p
                   /\ out.result.findings[i].rule = "CODE-001"
                   /\ out.result.findings[i].snippet.text =
                          SubSeq(line_of(tree[p].content), 1, 200) \o Ellipsis

\* The ids of a list of signatures
IdsOf(sigs) == { sigs[i].id : i \in DOMAIN sigs }

\* No id is twice in a list of signatures
OneSignaturePerId(sigs) == \A i, j \in DOMAIN sigs : sigs[i].id = sigs[j].id => i = j

\* The last signature of an id in a list that holds the id
LastVersion(sigs, id) ==
    sigs[CHOOSE i \in DOMAIN sigs :
             /\ sigs[i].id = id
             /\ \A j \in (i + 1)..Len(sigs) : sigs[j].id # id]

\* C24 as stated: after a merge that is not forced the stored list holds
\* every fetched signature in its fetched version, every local signature
\* whose id was not fetched unchanged and in its position, and one signature
\* per id at most; a forced fetch stores the fetched signatures exactly.
C24_UpsertKeepsEveryFetched ==
    (sync.op = "get_signatures" /\ sync.res = "Ok") =>
        LET fetched == sync.response.signatures
            stored == cloud.signatures
        IN IF sync.force
           THEN stored = fetched
           ELSE /\ \A i \in DOMAIN fetched :
                       \E j \in DOMAIN stored : stored[j] = fetched[i]
                /\ \A i \in DOMAIN sync.local :
                       sync.local[i].id \notin IdsOf(fetched) =>
                           /\ i \in DOMAIN stored
                           /\ stored[i] = sync.local[i]
                /\ OneSignaturePerId(stored)

\* C24: after a merge that is not forced the stored list holds, for every
\* fetched id, the last fetched signature of that id, every local signature
\* whose id was not fetched unchanged and in its position, and one signature
\* per id at most; a forced fetch stores the last fetched signature of every
\* fetched id and nothing else.  The call returns the length of the list.
C24_UpsertById ==
    (sync.op = "get_signatures" /\ sync.res = "Ok") =>
        LET fetched == sync.response.signatures
            stored == cloud.signatures
        IN /\ \A id \in IdsOf(fetched) :
                  \E j \in DOMAIN stored : stored[j] = LastVersion(fetched, id)
           /\ OneSignaturePerId(stored)
           /\ sync.ret = Len(stored)
           /\ IF sync.force
              THEN IdsOf(stored) = IdsOf(fetched)
              ELSE /\ IdsOf(stored) = IdsOf(fetched) \cup IdsOf(sync.local)
                   /\ \A i \in DOMAIN sync.local :
                          /\ i \in DOMAIN stored
                          /\ stored[i].id = sync.local[i].id
                          /\ sync.local[i].id \notin IdsOf(fetched) =>
                                 stored[i] = sync.local[i]

\* A merge that replaced the first of three local signatures in its place
\* and left the others as they were.
C24_Witness ==
    /\ sync.op = "get_signatures"
    /\ sync.res = "Ok"
    /\ ~sync.force
    /\ Len(sync.local) = 3
    /\ Len(sync.response.signatures) = 1
    /\ sync.response.signatures[1].id = sync.local[1].id
    /\ sync.response.signatures[1].pattern = "new"
    /\ cloud.signatures[1] = sync.response.signatures[1]
    /\ cloud.signatures[2] = sync.local[2]
    /\ cloud.signatures[3] = sync.local[3]

====
